---- MODULE Spec2Model ----
(***************************************************************************)
(* Model of the aws_budgets_budget_action resource                          *)
(* (aws/resource_aws_budgets_budget_action.go): the Create / Read / Update  *)
(* / Delete handlers, the composite resource ID, the budget_name validator  *)
(* and the expand / flatten conversions.                                    *)
(*                                                                          *)
(* Strings that are taken apart by the code (resource IDs, budget names)    *)
(* are sequences of one-character strings.  A Go pointer or slice that may  *)
(* be nil is a sequence of length 0 (nil) or 1 (the value pointed to).      *)
(***************************************************************************)
EXTENDS Integers, Sequences, FiniteSets, TLC

VARIABLES
    op,      \* the handler the framework is running: "none", "Create", "Read", "Update", "Delete"
    pc,      \* the handler's position
    id,      \* d.Id(): the resource ID, <<>> when unset
    isNew,   \* d.IsNewResource()
    attrs,   \* the attributes of the local record (what d.Set wrote / prior state)
    config,  \* the configuration the running handler reads with d.Get
    input,   \* the last request struct built for the vendor
    calls,   \* the vendor-facing calls of the running handler, with their outcomes
    ret,     \* what the handler returned: "none", "ok", "err"
    idt,     \* the resource ID conversion under test (specification SpecId)
    cvt      \* the expand / flatten conversion under test (specification SpecConv)

vars == <<op, pc, id, isNew, attrs, config, input, calls, ret, idt, cvt>>

lifecycleVars == <<op, pc, id, isNew, attrs, config, input, calls, ret>>

----------------------------------------------------------------------------
(* Bounds of the model *)

\* longest budget name enumerated by SpecId
MaxNameLen == 2
\* CreateBudgetAction attempts after which the propagation timeout has elapsed
MaxAttempts == 2
\* status polls after which the waiter's timeout has elapsed
MaxPolls == 2
\* largest number of elements in an enumerated string set
MaxSetSize == 1

----------------------------------------------------------------------------
(* Optional values *)

None == <<>>

Some(v) == <<v>>

\* aws.StringValue / aws.Float64Value of a string pointer: "" for nil
StringValue(p) == IF p = None THEN "" ELSE p[1]

----------------------------------------------------------------------------
(* The composite resource ID *)

\* the separator of the ID's components
budgetActionResourceIDSeparator == "/"

RECURSIVE Join(_, _)
\* strings.Join
Join(parts, sep) ==
    IF Len(parts) = 0 THEN <<>>
    ELSE IF Len(parts) = 1 THEN parts[1]
    ELSE parts[1] \o <<sep>> \o Join(Tail(parts), sep)

RECURSIVE Split(_, _)
\* strings.Split
Split(s, sep) ==
    IF \A i \in 1..Len(s) : s[i] # sep THEN <<s>>
    ELSE LET i == CHOOSE k \in 1..Len(s) :
                      s[k] = sep /\ \A j \in 1..(k - 1) : s[j] # sep
         IN  <<SubSeq(s, 1, i - 1)>> \o Split(SubSeq(s, i + 1, Len(s)), sep)

BudgetActionCreateResourceID(accountID, actionID, budgetName) ==
    Join(<<accountID, actionID, budgetName>>, budgetActionResourceIDSeparator)

ParseError == [ok |-> FALSE, accountID |-> <<>>, actionID |-> <<>>, budgetName |-> <<>>]

BudgetActionParseResourceID(s) ==
    LET parts == Split(s, budgetActionResourceIDSeparator)
    IN  IF Len(parts) = 3
        THEN [ok |-> TRUE, accountID |-> parts[1], actionID |-> parts[2],
              budgetName |-> parts[3]]
        ELSE ParseError

----------------------------------------------------------------------------
(* The budget_name validator *)

BudgetNameMinLen == 1

BudgetNameMaxLen == 100

\* validation.StringLenBetween(1, 100)
StringLenBetween(s) == BudgetNameMinLen <= Len(s) /\ Len(s) <= BudgetNameMaxLen

\* regexp `[^:\\]+` with MatchString: the pattern is not anchored, so it
\* matches as soon as one character is neither ':' nor '\'
StringMatchBudgetName(s) == \E i \in 1..Len(s) : s[i] \notin {":", "\\"}

\* validation.All(...) of the budget_name field
ValidateBudgetName(s) == StringLenBetween(s) /\ StringMatchBudgetName(s)

\* the characters budget names are built from
NameChars == {"b", "/", ":", "\\"}

RECURSIVE StringsOfLen(_)
StringsOfLen(n) ==
    IF n = 0 THEN {<<>>}
    ELSE {<<c>> \o s : c \in NameChars, s \in StringsOfLen(n - 1)}

Names == UNION {StringsOfLen(n) : n \in 0..MaxNameLen}

ValidBudgetNames == {s \in Names : ValidateBudgetName(s)}

----------------------------------------------------------------------------
(* Expand: configuration blocks to SDK structs.                             *)
(* A configuration list is a sequence (of at most one block, MaxItems: 1);  *)
(* a block is a record holding every key of its schema; a TypeSet is a set. *)

\* a list element that is nil (a block with no content)
NilBlock == [nil |-> TRUE]

\* aws.String(v) under the guard `v != ""`
NonEmptyString(v) == IF v # "" THEN Some(v) ELSE None

\* expandStringSet(v) under the guard `v.Len() > 0`
NonEmptyStringSet(v) == IF v # {} THEN Some(v) ELSE None

expandAwsBudgetsBudgetActionActionThreshold(l) ==
    IF Len(l) = 0 \/ l[1] = NilBlock THEN None
    ELSE LET m == l[1]
         IN  Some([ActionThresholdType  |-> NonEmptyString(m.action_threshold_type),
                   ActionThresholdValue |-> Some(m.action_threshold_value)])

expandAwsBudgetsBudgetActionSubscriber(l) ==
    IF Cardinality(l) = 0 THEN Some({})
    ELSE Some({[Address          |-> NonEmptyString(raw.address),
                SubscriptionType |-> Some(raw.subscription_type)] : raw \in l})

expandAwsBudgetsBudgetActionActionScpActionDefinition(l) ==
    IF Len(l) = 0 \/ l[1] = NilBlock THEN None
    ELSE LET m == l[1]
         IN  Some([PolicyId  |-> NonEmptyString(m.policy_id),
                   TargetIds |-> NonEmptyStringSet(m.target_ids)])

expandAwsBudgetsBudgetActionActionSsmActionDefinition(l) ==
    IF Len(l) = 0 \/ l[1] = NilBlock THEN None
    ELSE LET m == l[1]
         IN  Some([ActionSubType |-> NonEmptyString(m.action_sub_type),
                   Region        |-> NonEmptyString(m.region),
                   InstanceIds   |-> NonEmptyStringSet(m.instance_ids)])

\* mutant: Roles is filled from "groups"
expandAwsBudgetsBudgetActionActionIamActionDefinition_RolesFromGroups(l) ==
    IF Len(l) = 0 \/ l[1] = NilBlock THEN None
    ELSE LET m == l[1]
         IN  Some([PolicyArn |-> NonEmptyString(m.policy_arn),
                   Groups    |-> NonEmptyStringSet(m.groups),
                   Roles     |-> NonEmptyStringSet(m.groups),
                   Users     |-> NonEmptyStringSet(m.users)])

expandAwsBudgetsBudgetActionActionIamActionDefinition(l) ==
    IF Len(l) = 0 \/ l[1] = NilBlock THEN None
    ELSE LET m == l[1]
         IN  Some([PolicyArn |-> NonEmptyString(m.policy_arn),
                   Groups    |-> NonEmptyStringSet(m.groups),
                   Roles     |-> NonEmptyStringSet(m.roles),
                   Users     |-> NonEmptyStringSet(m.users)])

\* mutant: off by one in the length test
BranchConfigured_OffByOne(v) == Len(v) > 1

\* the guard `len(v) > 0` under which a branch of the definition is expanded
BranchConfigured(v) == Len(v) > 0

expandAwsBudgetsBudgetActionActionDefinition(l) ==
    IF Len(l) = 0 \/ l[1] = NilBlock THEN None
    ELSE LET m == l[1]
         IN  Some([SsmActionDefinition |->
                       IF BranchConfigured(m.ssm_action_definition)
                       THEN expandAwsBudgetsBudgetActionActionSsmActionDefinition(m.ssm_action_definition)
                       ELSE None,
                   ScpActionDefinition |->
                       IF BranchConfigured(m.scp_action_definition)
                       THEN expandAwsBudgetsBudgetActionActionScpActionDefinition(m.scp_action_definition)
                       ELSE None,
                   IamActionDefinition |->
                       IF BranchConfigured(m.iam_action_definition)
                       THEN expandAwsBudgetsBudgetActionActionIamActionDefinition(m.iam_action_definition)
                       ELSE None])

----------------------------------------------------------------------------
(* Flatten: SDK structs to configuration blocks.  A key the code leaves out *)
(* of the map it returns reads back as the zero value of its type (the      *)
(* empty set, the empty list).                                              *)

\* flattenStringSet of a slice that may be nil
flattenStringSet(p) == IF p = None THEN {} ELSE p[1]

\* aws.Float64Value
Float64Value(p) == IF p = None THEN 0 ELSE p[1]

flattenAwsBudgetsBudgetActionSubscriber(configured) ==
    IF configured = None THEN {}
    ELSE {[address           |-> StringValue(raw.Address),
           subscription_type |-> StringValue(raw.SubscriptionType)] : raw \in configured[1]}

flattenAwsBudgetsBudgetActionActionThreshold(lt) ==
    IF lt = None THEN <<>>
    ELSE <<[action_threshold_type  |-> StringValue(lt[1].ActionThresholdType),
            action_threshold_value |-> Float64Value(lt[1].ActionThresholdValue)]>>

flattenAwsBudgetsBudgetActionIamActionDefinition(lt) ==
    IF lt = None THEN <<>>
    ELSE <<[policy_arn |-> StringValue(lt[1].PolicyArn),
            users      |-> IF lt[1].Users # None /\ Cardinality(lt[1].Users[1]) > 0
                           THEN flattenStringSet(lt[1].Users) ELSE {},
            roles      |-> IF lt[1].Roles # None /\ Cardinality(lt[1].Roles[1]) > 0
                           THEN flattenStringSet(lt[1].Roles) ELSE {},
            groups     |-> IF lt[1].Groups # None /\ Cardinality(lt[1].Groups[1]) > 0
                           THEN flattenStringSet(lt[1].Groups) ELSE {}]>>

flattenAwsBudgetsBudgetActionScpActionDefinition(lt) ==
    IF lt = None THEN <<>>
    ELSE <<[policy_id  |-> StringValue(lt[1].PolicyId),
            target_ids |-> IF lt[1].TargetIds # None /\ Cardinality(lt[1].TargetIds[1]) > 0
                           THEN flattenStringSet(lt[1].TargetIds) ELSE {}]>>

flattenAwsBudgetsBudgetActionSsmActionDefinition(lt) ==
    IF lt = None THEN <<>>
    ELSE <<[action_sub_type |-> StringValue(lt[1].ActionSubType),
            instance_ids    |-> flattenStringSet(lt[1].InstanceIds),
            region          |-> StringValue(lt[1].Region)]>>

flattenAwsBudgetsBudgetActionDefinition(lt) ==
    IF lt = None THEN <<>>
    ELSE <<[ssm_action_definition |->
                IF lt[1].SsmActionDefinition # None
                THEN flattenAwsBudgetsBudgetActionSsmActionDefinition(lt[1].SsmActionDefinition)
                ELSE <<>>,
            iam_action_definition |->
                IF lt[1].IamActionDefinition # None
                THEN flattenAwsBudgetsBudgetActionIamActionDefinition(lt[1].IamActionDefinition)
                ELSE <<>>,
            scp_action_definition |->
                IF lt[1].ScpActionDefinition # None
                THEN flattenAwsBudgetsBudgetActionScpActionDefinition(lt[1].ScpActionDefinition)
                ELSE <<>>]>>

----------------------------------------------------------------------------
(* The values the lifecycle draws its inputs from *)

\* meta.(*AWSClient).accountid and .partition
ProviderAccountId == <<"1">>

ProviderPartition == "aws"

\* account_id of the configuration: unset, or another account
ConfigAccountIds == {<<>>, <<"2">>}

\* budget_name of the configuration (both pass ValidateBudgetName)
ConfigBudgetNames == {<<"b">>, <<"b", "/">>}

\* the ActionId the vendor assigns
ActionIds == {<<"x">>}

\* the two values each field of the lifecycle is drawn from, as a sequence
ThresholdValues ==
    << <<[action_threshold_type |-> "PERCENTAGE", action_threshold_value |-> 80]>>,
       <<[action_threshold_type |-> "ABSOLUTE_VALUE", action_threshold_value |-> 100]>> >>

ApprovalModelValues == <<"AUTOMATIC", "MANUAL">>

DefinitionValues ==
    << <<[iam_action_definition |-> <<[policy_arn |-> "arn:policy", groups |-> {},
                                       roles |-> {"role"}, users |-> {}]>>,
          ssm_action_definition |-> <<>>,
          scp_action_definition |-> <<>>]>>,
       <<[iam_action_definition |-> <<>>,
          ssm_action_definition |-> <<>>,
          scp_action_definition |-> <<[policy_id |-> "p-1", target_ids |-> {"ou-1"}]>>]>> >>

ExecutionRoleArnValues == <<"arn:role/a", "arn:role/b">>

NotificationTypeValues == <<"ACTUAL", "FORECASTED">>

SubscriberValues ==
    << {[address |-> "a@example.com", subscription_type |-> "EMAIL"]},
       {[address |-> "arn:sns", subscription_type |-> "SNS"]} >>

Range(f) == {f[i] : i \in DOMAIN f}

ThresholdConfigs == Range(ThresholdValues)

ApprovalModels == Range(ApprovalModelValues)

LifecycleDefinitionConfigs == Range(DefinitionValues)

ExecutionRoleArns == Range(ExecutionRoleArnValues)

NotificationTypes == Range(NotificationTypeValues)

SubscriberConfigs == Range(SubscriberValues)

ActionTypes == {"APPLY_IAM_POLICY"}

\* the fields Update may send
UpdatableFields == {"action_threshold", "approval_model", "definition",
                    "execution_role_arn", "notification_type", "subscriber"}

Configs ==
    [account_id : ConfigAccountIds, budget_name : ConfigBudgetNames,
     action_type : ActionTypes, action_threshold : ThresholdConfigs,
     approval_model : ApprovalModels, definition : LifecycleDefinitionConfigs,
     execution_role_arn : ExecutionRoleArns, notification_type : NotificationTypes,
     subscriber : SubscriberConfigs]

NoConfig ==
    [account_id |-> <<>>, budget_name |-> <<>>, action_type |-> "",
     action_threshold |-> <<>>, approval_model |-> "", definition |-> <<>>,
     execution_role_arn |-> "", notification_type |-> "", subscriber |-> {}]

NoArn == [Partition |-> "", Service |-> "", AccountID |-> <<>>, Resource |-> <<>>]

\* the record before any attribute is written
NoAttrs ==
    [arn |-> NoArn, account_id |-> <<>>, action_id |-> <<>>, budget_name |-> <<>>,
     action_type |-> "", status |-> "", action_threshold |-> <<>>,
     approval_model |-> "", definition |-> <<>>, execution_role_arn |-> "",
     notification_type |-> "", subscriber |-> {}]

NoInput == [kind |-> "none"]

\* the budgets.Action structs the finder may return: the vendor holds the
\* first value of every field, or the second value of every field
Outputs ==
    { [ActionThreshold  |-> expandAwsBudgetsBudgetActionActionThreshold(ThresholdValues[i]),
       ActionType       |-> Some(ty),
       ApprovalModel    |-> Some(ApprovalModelValues[i]),
       Definition       |-> expandAwsBudgetsBudgetActionActionDefinition(DefinitionValues[i]),
       ExecutionRoleArn |-> Some(ExecutionRoleArnValues[i]),
       NotificationType |-> Some(NotificationTypeValues[i]),
       Status           |-> Some("STANDBY"),
       Subscribers      |-> expandAwsBudgetsBudgetActionSubscriber(SubscriberValues[i])] :
      i \in DOMAIN ThresholdValues, ty \in ActionTypes }

\* error codes of the vendor; "ok" stands for no error
CreateCodes == {"ok", "AccessDeniedException", "InternalErrorException"}

UpdateCodes == {"ok", "NotFoundException", "InternalErrorException"}

DeleteCodes == {"ok", "NotFoundException", "InternalErrorException"}

\* what the finder returns: the action, a resource-not-found error, another error
FinderResults == {"ok", "notfound", "error"}

\* what one status poll of the waiter sees
PollResults == {"available", "pending", "error"}

Call(name, res, elapsed) == [call |-> name, res |-> res, elapsed |-> elapsed]

\* how many calls of that name the running handler has made
CountCalls(name) == Cardinality({i \in 1..Len(calls) : calls[i].call = name})

----------------------------------------------------------------------------
(* Retry and waiter *)

\* whether the timeout has elapsed when the n+1-th try returns: the model
\* lets it elapse at any try and forces it at the bound
ElapsedChoices(n, bound) == IF n + 1 >= bound THEN {TRUE} ELSE BOOLEAN

\* tfresource.RetryWhenAwsErrCodeEquals, one call of f: "ok" (return the
\* output), "retry" (call f again), "err" (return the error)
RetryWhenAwsErrCodeEquals(code, elapsed, codes) ==
    IF code = "ok" THEN "ok"
    ELSE IF code \in codes /\ ~elapsed THEN "retry"
    ELSE "err"

\* waiter.ActionAvailable, one poll: "ok" (expected status reached), "poll"
\* (poll again), "err" (the poll failed or the timeout elapsed)
ActionAvailable(status, elapsed) ==
    IF status = "available" THEN "ok"
    ELSE IF status = "pending" /\ ~elapsed THEN "poll"
    ELSE "err"

----------------------------------------------------------------------------
(* Create *)

\* mutant: the retry also covers an error that is not transient
CreateRetryCodes_AnyError == {"AccessDeniedException", "InternalErrorException"}

\* the error codes Create retries on
CreateRetryCodes == {"AccessDeniedException"}

\* accountID of Create: account_id of the configuration, else the provider's
CreateAccountId(c) == IF c.account_id = <<>> THEN ProviderAccountId ELSE c.account_id

CreateBudgetActionInput(c) ==
    [kind             |-> "create",
     AccountId        |-> Some(CreateAccountId(c)),
     ActionThreshold  |-> expandAwsBudgetsBudgetActionActionThreshold(c.action_threshold),
     ActionType       |-> Some(c.action_type),
     ApprovalModel    |-> Some(c.approval_model),
     BudgetName       |-> Some(c.budget_name),
     Definition       |-> expandAwsBudgetsBudgetActionActionDefinition(c.definition),
     ExecutionRoleArn |-> Some(c.execution_role_arn),
     NotificationType |-> Some(c.notification_type),
     Subscribers      |-> expandAwsBudgetsBudgetActionSubscriber(c.subscriber)]

\* the framework marks the record new and calls Create, which builds its request
CreateStart ==
    /\ pc = "idle"
    /\ id = <<>>
    /\ \E c \in Configs :
        /\ config' = c
        /\ input' = CreateBudgetActionInput(c)
    /\ op' = "Create"
    /\ isNew' = TRUE
    /\ pc' = "create_retry"
    /\ UNCHANGED <<id, attrs, calls, ret, idt, cvt>>

\* mutant: the ID is not set after the call
CreatedId_NotSet(accountID, actionID, budgetName) == <<>>

\* d.SetId after a successful CreateBudgetAction
CreatedId(accountID, actionID, budgetName) ==
    BudgetActionCreateResourceID(accountID, actionID, budgetName)

\* mutant: when the retry returns an error, Create starts the retry over
\* instead of returning
CreateAttempt_StartsOver ==
    /\ pc = "create_retry"
    /\ \E code \in CreateCodes :
       \E elapsed \in IF code = "ok" THEN {FALSE}
                      ELSE ElapsedChoices(CountCalls("CreateBudgetAction"), MaxAttempts) :
       \E actionID \in ActionIds :
         LET outcome == RetryWhenAwsErrCodeEquals(code, elapsed, CreateRetryCodes)
             accountID == input.AccountId[1]
             budgetName == input.BudgetName[1]
         IN  /\ calls' = IF outcome = "err" THEN <<>>
                         ELSE Append(calls, Call("CreateBudgetAction", code, elapsed))
             /\ id' = IF outcome = "ok" THEN CreatedId(accountID, actionID, budgetName)
                      ELSE id
             /\ pc' = IF outcome = "ok" THEN "create_wait" ELSE "create_retry"
             /\ ret' = ret
    /\ UNCHANGED <<op, isNew, attrs, config, input, idt, cvt>>

\* one CreateBudgetAction call inside the retry, and what follows its outcome
CreateAttempt ==
    /\ pc = "create_retry"
    /\ \E code \in CreateCodes :
       \E elapsed \in IF code = "ok" THEN {FALSE}
                      ELSE ElapsedChoices(CountCalls("CreateBudgetAction"), MaxAttempts) :
       \E actionID \in ActionIds :
         LET outcome == RetryWhenAwsErrCodeEquals(code, elapsed, CreateRetryCodes)
             accountID == input.AccountId[1]
             budgetName == input.BudgetName[1]
         IN  /\ calls' = Append(calls, Call("CreateBudgetAction", code, elapsed))
             /\ id' = IF outcome = "ok" THEN CreatedId(accountID, actionID, budgetName)
                      ELSE id
             /\ pc' = CASE outcome = "ok" -> "create_wait"
                        [] outcome = "retry" -> "create_retry"
                        [] OTHER -> "done"
             /\ ret' = IF outcome = "err" THEN "err" ELSE ret
    /\ UNCHANGED <<op, isNew, attrs, config, input, idt, cvt>>

\* one poll of waiter.ActionAvailable in Create
CreateWait ==
    /\ pc = "create_wait"
    /\ \E status \in PollResults :
       \E elapsed \in ElapsedChoices(CountCalls("ActionStatus"), MaxPolls) :
         LET outcome == ActionAvailable(status, elapsed)
         IN  /\ calls' = Append(calls, Call("ActionStatus", status, elapsed))
             /\ pc' = CASE outcome = "ok" -> "create_read"
                        [] outcome = "poll" -> "create_wait"
                        [] OTHER -> "done"
             /\ ret' = IF outcome = "err" THEN "err" ELSE ret
    /\ UNCHANGED <<op, id, isNew, attrs, config, input, idt, cvt>>

----------------------------------------------------------------------------
(* Read *)

\* mutant: not-found is not told apart from other errors
ReadRemovesFromState_Never(new, res) == FALSE

\* mutant: the IsNewResource check is missing
ReadRemovesFromState_AlsoNew(new, res) == res = "notfound"

\* mutant: every finder error removes the record
ReadRemovesFromState_AnyError(new, res) == ~new /\ res # "ok"

\* the guard under which Read removes the record from state
ReadRemovesFromState(new, res) == ~new /\ res = "notfound"

BudgetActionArn(budgetName, actionID) ==
    [Partition |-> ProviderPartition,
     Service   |-> "budgets",
     AccountID |-> ProviderAccountId,
     Resource  |-> <<"budget/">> \o budgetName \o <<"/action/">> \o actionID]

\* the d.Set calls of Read
ReadAttrs(accountID, actionID, budgetName, output) ==
    [arn                |-> BudgetActionArn(budgetName, actionID),
     account_id         |-> accountID,
     action_id          |-> actionID,
     action_threshold   |-> flattenAwsBudgetsBudgetActionActionThreshold(output.ActionThreshold),
     action_type        |-> StringValue(output.ActionType),
     approval_model     |-> StringValue(output.ApprovalModel),
     budget_name        |-> budgetName,
     definition         |-> flattenAwsBudgetsBudgetActionDefinition(output.Definition),
     execution_role_arn |-> StringValue(output.ExecutionRoleArn),
     notification_type  |-> StringValue(output.NotificationType),
     status             |-> StringValue(output.Status),
     subscriber         |-> flattenAwsBudgetsBudgetActionSubscriber(output.Subscribers)]

\* Read on a record with ID dId and attributes dAttrs, the finder returning
\* res (and output when res = "ok"): the ID and attributes Read leaves, what
\* it returns and whether it called the finder
resourceAwsBudgetsBudgetActionRead(dId, dAttrs, new, res, output) ==
    LET parsed == BudgetActionParseResourceID(dId)
    IN  IF ~parsed.ok
        THEN [id |-> dId, attrs |-> dAttrs, ret |-> "err", called |-> FALSE]
        ELSE IF ReadRemovesFromState(new, res)
        THEN [id |-> <<>>, attrs |-> dAttrs, ret |-> "ok", called |-> TRUE]
        ELSE IF res # "ok"
        THEN [id |-> dId, attrs |-> dAttrs, ret |-> "err", called |-> TRUE]
        ELSE [id    |-> dId,
              attrs |-> ReadAttrs(parsed.accountID, parsed.actionID, parsed.budgetName, output),
              ret |-> "ok", called |-> TRUE]

\* the effect of one Read on the state of the model
ReadStep ==
    \E res \in FinderResults :
    \E output \in Outputs :
      LET r == resourceAwsBudgetsBudgetActionRead(id, attrs, isNew, res, output)
      IN  /\ id' = r.id
          /\ attrs' = r.attrs
          /\ ret' = r.ret
          /\ calls' = IF r.called
                      THEN Append(calls, Call("ActionByAccountIDActionIDAndBudgetName", res, FALSE))
                      ELSE calls
          /\ pc' = "done"

\* the Read that ends Create
CreateRead ==
    /\ pc = "create_read"
    /\ ReadStep
    /\ UNCHANGED <<op, isNew, config, input, idt, cvt>>

\* the framework refreshes an existing record
Read ==
    /\ pc = "idle"
    /\ id # <<>>
    /\ op' = "Read"
    /\ ReadStep
    /\ UNCHANGED <<isNew, config, input, idt, cvt>>

----------------------------------------------------------------------------
(* Update *)

\* d.HasChange(k): prior state against configuration
HasChange(a, c, k) == a[k] # c[k]

\* the UpdateBudgetActionInput with the fields of `changed` set
UpdateInputOf(parsed, c, changed) ==
    [kind             |-> "update",
     AccountId        |-> Some(parsed.accountID),
     ActionId         |-> Some(parsed.actionID),
     BudgetName       |-> Some(parsed.budgetName),
     ActionThreshold  |-> IF "action_threshold" \in changed
                          THEN expandAwsBudgetsBudgetActionActionThreshold(c.action_threshold)
                          ELSE None,
     ApprovalModel    |-> IF "approval_model" \in changed
                          THEN Some(c.approval_model) ELSE None,
     Definition       |-> IF "definition" \in changed
                          THEN expandAwsBudgetsBudgetActionActionDefinition(c.definition)
                          ELSE None,
     ExecutionRoleArn |-> IF "execution_role_arn" \in changed
                          THEN Some(c.execution_role_arn) ELSE None,
     NotificationType |-> IF "notification_type" \in changed
                          THEN Some(c.notification_type) ELSE None,
     Subscribers      |-> IF "subscriber" \in changed
                          THEN expandAwsBudgetsBudgetActionSubscriber(c.subscriber)
                          ELSE None]

\* the fields for which Update finds a change
ChangedFields(a, c) == {k \in UpdatableFields : HasChange(a, c, k)}

\* mutant: every field is sent, changed or not
UpdateBudgetActionInput_AllFields(a, parsed, c) == UpdateInputOf(parsed, c, UpdatableFields)

\* the request Update builds from prior state a and configuration c
UpdateBudgetActionInput(a, parsed, c) == UpdateInputOf(parsed, c, ChangedFields(a, c))

\* mutant: the error of UpdateBudgetAction is dropped
UpdateCallFailed_Never(code) == FALSE

\* the error check after UpdateBudgetAction
UpdateCallFailed(code) == code # "ok"

\* the configurations the framework calls Update with: the ForceNew fields
\* are those of the record, and an updatable field differs
UpdateConfigs ==
    {c \in Configs : /\ CreateAccountId(c) = attrs.account_id
                     /\ c.budget_name = attrs.budget_name
                     /\ c.action_type = attrs.action_type
                     /\ ChangedFields(attrs, c) # {}}

\* Update up to the return of UpdateBudgetAction
UpdateCall ==
    /\ pc = "idle"
    /\ id # <<>>
    /\ attrs # NoAttrs
    /\ op' = "Update"
    /\ \E c \in UpdateConfigs :
         LET parsed == BudgetActionParseResourceID(id)
         IN  /\ config' = c
             /\ IF ~parsed.ok
                THEN /\ ret' = "err"
                     /\ pc' = "done"
                     /\ UNCHANGED <<input, calls>>
                ELSE \E code \in UpdateCodes :
                     /\ input' = UpdateBudgetActionInput(attrs, parsed, c)
                     /\ calls' = Append(calls, Call("UpdateBudgetAction", code, FALSE))
                     /\ ret' = IF UpdateCallFailed(code) THEN "err" ELSE ret
                     /\ pc' = IF UpdateCallFailed(code) THEN "done" ELSE "update_wait"
    /\ UNCHANGED <<id, isNew, attrs, idt, cvt>>

\* one poll of waiter.ActionAvailable in Update
UpdateWait ==
    /\ pc = "update_wait"
    /\ \E status \in PollResults :
       \E elapsed \in ElapsedChoices(CountCalls("ActionStatus"), MaxPolls) :
         LET outcome == ActionAvailable(status, elapsed)
         IN  /\ calls' = Append(calls, Call("ActionStatus", status, elapsed))
             /\ pc' = CASE outcome = "ok" -> "update_read"
                        [] outcome = "poll" -> "update_wait"
                        [] OTHER -> "done"
             /\ ret' = IF outcome = "err" THEN "err" ELSE ret
    /\ UNCHANGED <<op, id, isNew, attrs, config, input, idt, cvt>>

\* the Read that ends Update
UpdateRead ==
    /\ pc = "update_read"
    /\ ReadStep
    /\ UNCHANGED <<op, isNew, config, input, idt, cvt>>

----------------------------------------------------------------------------
(* Delete *)

\* mutant: every error of DeleteBudgetAction is taken for success
DeleteIgnoresError_AnyError(code) == code # "ok"

\* the error of DeleteBudgetAction that Delete takes for success
DeleteIgnoresError(code) == code = "NotFoundException"

\* what Delete returns after DeleteBudgetAction returned code
DeleteResult(code) ==
    IF DeleteIgnoresError(code) THEN "ok"
    ELSE IF code # "ok" THEN "err"
    ELSE "ok"

DeleteBudgetActionInput(parsed) ==
    [kind       |-> "delete",
     AccountId  |-> Some(parsed.accountID),
     ActionId   |-> Some(parsed.actionID),
     BudgetName |-> Some(parsed.budgetName)]

Delete ==
    /\ pc = "idle"
    /\ id # <<>>
    /\ op' = "Delete"
    /\ LET parsed == BudgetActionParseResourceID(id)
       IN  IF ~parsed.ok
           THEN /\ ret' = "err"
                /\ UNCHANGED <<input, calls>>
           ELSE \E code \in DeleteCodes :
                /\ input' = DeleteBudgetActionInput(parsed)
                /\ calls' = Append(calls, Call("DeleteBudgetAction", code, FALSE))
                /\ ret' = DeleteResult(code)
    /\ pc' = "done"
    /\ UNCHANGED <<id, isNew, attrs, config, idt, cvt>>

----------------------------------------------------------------------------
(* The framework, after the handler returned *)

\* the record is removed after a successful Delete, and when its ID is empty
Finish ==
    /\ pc = "done"
    /\ LET removed == (op = "Delete" /\ ret = "ok") \/ id = <<>>
       IN  /\ id' = IF removed THEN <<>> ELSE id
           /\ attrs' = IF removed THEN NoAttrs ELSE attrs
    /\ op' = "none"
    /\ pc' = "idle"
    /\ isNew' = FALSE
    /\ config' = NoConfig
    /\ input' = NoInput
    /\ calls' = <<>>
    /\ ret' = "none"
    /\ UNCHANGED <<idt, cvt>>

----------------------------------------------------------------------------
(* The lifecycle specification *)

IdtIdle == [phase |-> "off"]

CvtIdle == [phase |-> "off"]

Init ==
    /\ op = "none"
    /\ pc = "idle"
    /\ id = <<>>
    /\ isNew = FALSE
    /\ attrs = NoAttrs
    /\ config = NoConfig
    /\ input = NoInput
    /\ calls = <<>>
    /\ ret = "none"
    /\ idt = IdtIdle
    /\ cvt = CvtIdle

Next ==
    \/ CreateStart
    \/ CreateAttempt
    \/ CreateWait
    \/ CreateRead
    \/ Read
    \/ UpdateCall
    \/ UpdateWait
    \/ UpdateRead
    \/ Delete
    \/ Finish

Spec == Init /\ [][Next]_vars

\* a handler that was called keeps running: each of its steps that stays
\* possible is eventually taken (every vendor call returns)
HandlerFairness ==
    /\ WF_vars(CreateAttempt)
    /\ WF_vars(CreateWait)
    /\ WF_vars(CreateRead)
    /\ WF_vars(UpdateWait)
    /\ WF_vars(UpdateRead)

\* the configurations of the fair specification: termination does not read
\* the field values, so four of the six updatable fields keep their first value
FairConfigs ==
    {c \in Configs : /\ c.action_threshold = ThresholdValues[1]
                     /\ c.definition = DefinitionValues[1]
                     /\ c.execution_role_arn = ExecutionRoleArnValues[1]
                     /\ c.subscriber = SubscriberValues[1]}

\* Create and Update, called with one of these configurations
FairCreateStart == CreateStart /\ config' \in FairConfigs

FairUpdateCall == UpdateCall /\ config' \in FairConfigs

FairNext ==
    \/ FairCreateStart
    \/ CreateAttempt
    \/ CreateWait
    \/ CreateRead
    \/ Read
    \/ FairUpdateCall
    \/ UpdateWait
    \/ UpdateRead
    \/ Delete
    \/ Finish

FairSpec == Init /\ [][FairNext]_vars /\ HandlerFairness

----------------------------------------------------------------------------
(* The resource ID conversion on its own: Create's ID of three components,  *)
(* then the parse of Read, Update and Delete                                *)

\* account IDs (digits) and vendor-assigned action IDs
IdAccountIds == {<<"1">>, <<"1", "2">>}

IdActionIds == {<<"x">>, <<"x", "-", "y">>}

InitId ==
    /\ op = "none"
    /\ pc = "idle"
    /\ id = <<>>
    /\ isNew = FALSE
    /\ attrs = NoAttrs
    /\ config = NoConfig
    /\ input = NoInput
    /\ calls = <<>>
    /\ ret = "none"
    /\ cvt = CvtIdle
    /\ \E a \in IdAccountIds, x \in IdActionIds, b \in ValidBudgetNames :
         idt = [phase |-> "input", accountID |-> a, actionID |-> x, budgetName |-> b,
                id |-> <<>>, parsed |-> ParseError]

\* d.SetId(BudgetActionCreateResourceID(...)) of Create
IdCreate ==
    /\ idt.phase = "input"
    /\ idt' = [idt EXCEPT !.phase = "created",
                          !.id = CreatedId(idt.accountID, idt.actionID, idt.budgetName)]
    /\ UNCHANGED <<lifecycleVars, cvt>>

\* BudgetActionParseResourceID(d.Id()) of Read, Update and Delete
IdParse ==
    /\ idt.phase = "created"
    /\ idt' = [idt EXCEPT !.phase = "parsed",
                          !.parsed = BudgetActionParseResourceID(idt.id)]
    /\ UNCHANGED <<lifecycleVars, cvt>>

NextId == IdCreate \/ IdParse

SpecId == InitId /\ [][NextId]_vars

----------------------------------------------------------------------------
(* The expand / flatten conversions on their own, on the blocks the schema  *)
(* accepts                                                                  *)

StringPool == <<"s1", "s2", "s3">>

\* the string sets enumerated: at most MaxSetSize elements of the pool
StringSets ==
    SUBSET {StringPool[i] : i \in {j \in DOMAIN StringPool : j <= MaxSetSize}}

\* budgets.ActionSubType_Values()
ActionSubTypes == {"STOP_EC2_INSTANCES", "STOP_RDS_INSTANCES"}

\* iam_action_definition: absent, or one block (policy_arn required; validateArn
\* accepts the empty string)
IamConfigs ==
    {<<>>} \cup {<<[policy_arn |-> p, groups |-> g, roles |-> r, users |-> u]>> :
                 p \in {"", "arn:policy"}, g \in StringSets, r \in StringSets,
                 u \in StringSets}

\* ssm_action_definition: absent, or one block
SsmConfigs ==
    {<<>>} \cup {<<[action_sub_type |-> t, instance_ids |-> i, region |-> r]>> :
                 t \in ActionSubTypes, i \in StringSets, r \in {"", "us-east-1"}}

\* scp_action_definition: absent, or one block
ScpConfigs ==
    {<<>>} \cup {<<[policy_id |-> p, target_ids |-> t]>> :
                 p \in {"", "p-1"}, t \in StringSets}

\* definition: Required, MaxItems 1, its three blocks each Optional and
\* independent of the others; a definition block with no content is read by
\* d.Get as a nil list element
DefinitionConfigs ==
    {<<NilBlock>>} \cup
    {<<[iam_action_definition |-> i, ssm_action_definition |-> s,
        scp_action_definition |-> c]>> :
     i \in IamConfigs, s \in SsmConfigs, c \in ScpConfigs}

\* budgets.ThresholdType_Values()
ThresholdTypes == {"PERCENTAGE", "ABSOLUTE_VALUE"}

\* validation.FloatBetween(0, 40000000000); threshold values of the
\* conversion inputs are counted in thousands
ThresholdValueMin == 0

ThresholdValueMax == 40000000

\* action_threshold: Required, MaxItems 1, both fields Required
ActionThresholdConfigs ==
    {<<[action_threshold_type |-> t, action_threshold_value |-> v]>> :
     t \in ThresholdTypes, v \in {ThresholdValueMin, 80, ThresholdValueMax}}

\* budgets.SubscriptionType_Values()
SubscriptionTypes == {"EMAIL", "SNS"}

\* one subscriber block (address of length 1 or more)
SubscriberBlocks ==
    [address : {"a@example.com", "arn:sns"}, subscription_type : SubscriptionTypes]

\* subscriber: Required set of one or more blocks
SubscriberSetConfigs == (SUBSET SubscriberBlocks) \ {{}}

\* the expand function of each kind of block
ExpandOf(kind, cfg) ==
    CASE kind = "definition" -> expandAwsBudgetsBudgetActionActionDefinition(cfg)
      [] kind = "threshold"  -> expandAwsBudgetsBudgetActionActionThreshold(cfg)
      [] kind = "subscriber" -> expandAwsBudgetsBudgetActionSubscriber(cfg)

\* the flatten function of each kind of block
FlattenOf(kind, sdk) ==
    CASE kind = "definition" -> flattenAwsBudgetsBudgetActionDefinition(sdk)
      [] kind = "threshold"  -> flattenAwsBudgetsBudgetActionActionThreshold(sdk)
      [] kind = "subscriber" -> flattenAwsBudgetsBudgetActionSubscriber(sdk)

ConvInputs ==
    {[phase |-> "input", kind |-> "definition", cfg |-> d, sdk |-> None, flat |-> None] :
        d \in DefinitionConfigs}
    \cup
    {[phase |-> "input", kind |-> "threshold", cfg |-> t, sdk |-> None, flat |-> None] :
        t \in ActionThresholdConfigs}
    \cup
    {[phase |-> "input", kind |-> "subscriber", cfg |-> b, sdk |-> None, flat |-> None] :
        b \in SubscriberSetConfigs}

InitConv ==
    /\ op = "none"
    /\ pc = "idle"
    /\ id = <<>>
    /\ isNew = FALSE
    /\ attrs = NoAttrs
    /\ config = NoConfig
    /\ input = NoInput
    /\ calls = <<>>
    /\ ret = "none"
    /\ idt = IdtIdle
    /\ cvt \in ConvInputs

\* the expand call of Create and Update (d.Get of the block, expanded)
ConvExpand ==
    /\ cvt.phase = "input"
    /\ cvt' = [cvt EXCEPT !.phase = "expanded", !.sdk = ExpandOf(cvt.kind, cvt.cfg)]
    /\ UNCHANGED <<lifecycleVars, idt>>

\* the flatten call of Read (the struct, flattened for d.Set)
ConvFlatten ==
    /\ cvt.phase = "expanded"
    /\ cvt' = [cvt EXCEPT !.phase = "flattened", !.flat = FlattenOf(cvt.kind, cvt.sdk)]
    /\ UNCHANGED <<lifecycleVars, idt>>

NextConv == ConvExpand \/ ConvFlatten

SpecConv == InitConv /\ [][NextConv]_vars

----------------------------------------------------------------------------
(* Properties *)

FinderCall == "ActionByAccountIDActionIDAndBudgetName"

\* the running handler's last call was the finder and it answered res
LastFinder(res) ==
    /\ calls # <<>>
    /\ calls[Len(calls)].call = FinderCall
    /\ calls[Len(calls)].res = res

\* this step is a call of the finder that answered res
FinderStep(res) ==
    /\ Len(calls') = Len(calls) + 1
    /\ calls'[Len(calls')].call = FinderCall
    /\ calls'[Len(calls')].res = res

NoFinderCall == \A i \in 1..Len(calls) : calls[i].call # FinderCall

\* C1 as stated: in every invocation of Read, a resource-not-found answer of
\* the finder makes Read clear the ID and return no error.
C1_NotFoundAlwaysRemoves ==
    (pc = "done" /\ LastFinder("notfound")) => (ret = "ok" /\ id = <<>>)

\* C1, amended: in every invocation of Read on a record that is not newly
\* created (the refresh Read and the Read that ends Update), a
\* resource-not-found answer of the finder makes Read clear the ID and return
\* no error.
C1_NotFoundRemovesUnlessNew ==
    (pc = "done" /\ ~isNew /\ LastFinder("notfound")) => (ret = "ok" /\ id = <<>>)

C1_Witness ==
    /\ pc = "done"
    /\ op = "Read"
    /\ LastFinder("notfound")
    /\ ret = "ok"
    /\ id = <<>>

\* C2: Delete makes at most one vendor call, DeleteBudgetAction, and no poll;
\* it returns success exactly when that call was made and succeeded or failed
\* with NotFoundException; after any other outcome it returns an error and
\* the record stays (ID and attributes are kept, also by the framework).
C2_DeleteResult ==
    /\ [] ( (op = "Delete" /\ pc = "done") =>
              /\ Len(calls) <= 1
              /\ \A i \in 1..Len(calls) : calls[i].call = "DeleteBudgetAction"
              /\ ret \in {"ok", "err"}
              /\ ret = "ok" <=> ( /\ Len(calls) = 1
                                  /\ calls[1].res \in {"ok", "NotFoundException"} )
              /\ id # <<>> )
    /\ [][ (op = "Delete" /\ pc = "done" /\ ret = "err") =>
              (id' = id /\ attrs' = attrs) ]_vars

C2_Witness ==
    /\ op = "Delete"
    /\ pc = "done"
    /\ Len(calls) = 1
    /\ calls[1].res = "NotFoundException"
    /\ ret = "ok"

\* C3: in the request Update built, each of the six updatable fields is set
\* if and only if its prior value differs from its configured value, and
\* AccountId, ActionId and BudgetName are the components parsed from the ID.
\* (Stated before Read refreshes the prior values.)
C3_UpdateScopedToChanges ==
    (op = "Update" /\ input.kind = "update" /\ NoFinderCall) =>
        LET parsed == BudgetActionParseResourceID(id)
        IN  /\ (input.ActionThreshold # None) <=> (attrs.action_threshold # config.action_threshold)
            /\ (input.ApprovalModel # None) <=> (attrs.approval_model # config.approval_model)
            /\ (input.Definition # None) <=> (attrs.definition # config.definition)
            /\ (input.ExecutionRoleArn # None) <=> (attrs.execution_role_arn # config.execution_role_arn)
            /\ (input.NotificationType # None) <=> (attrs.notification_type # config.notification_type)
            /\ (input.Subscribers # None) <=> (attrs.subscriber # config.subscriber)
            /\ parsed.ok
            /\ input.AccountId = Some(parsed.accountID)
            /\ input.ActionId = Some(parsed.actionID)
            /\ input.BudgetName = Some(parsed.budgetName)

C3_Witness ==
    /\ op = "Update"
    /\ pc = "update_wait"
    /\ input.kind = "update"
    /\ input.ApprovalModel # None
    /\ input.Subscribers # None
    /\ input.Definition = None
    /\ input.ActionThreshold = None

\* C4: a CreateBudgetAction call that is not the first follows an attempt
\* that failed with AccessDeniedException before the timeout elapsed; an
\* attempt failing with another code is the last call of Create, which has
\* returned an error with no ID set (so neither the waiter nor Read ran).
C4_RetryOnlyOnAccessDenied ==
    op = "Create" =>
        \A i \in 1..Len(calls) :
            calls[i].call = "CreateBudgetAction" =>
                /\ (i > 1) => ( /\ calls[i - 1].call = "CreateBudgetAction"
                                /\ calls[i - 1].res = "AccessDeniedException"
                                /\ ~calls[i - 1].elapsed )
                /\ calls[i].res \notin {"ok", "AccessDeniedException"} =>
                       ( /\ i = Len(calls)
                         /\ pc = "done"
                         /\ ret = "err"
                         /\ id = <<>> )

C4_Witness ==
    /\ op = "Create"
    /\ pc = "done"
    /\ Len(calls) = 2
    /\ calls[1].res = "AccessDeniedException"
    /\ calls[2].call = "CreateBudgetAction"
    /\ calls[2].res = "InternalErrorException"
    /\ ret = "err"
    /\ id = <<>>

Populated(def) ==
    {b \in {"IamActionDefinition", "SsmActionDefinition", "ScpActionDefinition"} :
        def[b] # None}

\* C6 as stated: every Definition expanded from a schema-accepted definition
\* block has exactly one of its three branches populated.
C6_ExactlyOneBranch ==
    (cvt.phase = "expanded" /\ cvt.kind = "definition" /\ cvt.sdk # None) =>
        Cardinality(Populated(cvt.sdk[1])) = 1

\* C6, amended: in every Definition expanded from a schema-accepted
\* definition block, a branch is populated if and only if its block is
\* present in the configuration; so exactly one branch is populated exactly
\* when the configuration holds exactly one of the three blocks (the schema
\* also accepts none and several).
C6_BranchIffConfigured ==
    (cvt.phase = "expanded" /\ cvt.kind = "definition" /\ cvt.cfg # <<NilBlock>>) =>
        LET m == cvt.cfg[1]
            present == {k \in {"iam_action_definition", "ssm_action_definition",
                               "scp_action_definition"} : m[k] # <<>>}
        IN  /\ cvt.sdk # None
            /\ (cvt.sdk[1].IamActionDefinition # None) <=> (m.iam_action_definition # <<>>)
            /\ (cvt.sdk[1].SsmActionDefinition # None) <=> (m.ssm_action_definition # <<>>)
            /\ (cvt.sdk[1].ScpActionDefinition # None) <=> (m.scp_action_definition # <<>>)
            /\ (Cardinality(Populated(cvt.sdk[1])) = 1) <=> (Cardinality(present) = 1)

C6_Witness ==
    /\ cvt.phase = "expanded"
    /\ cvt.kind = "definition"
    /\ cvt.sdk # None
    /\ cvt.sdk[1].IamActionDefinition # None
    /\ cvt.sdk[1].ScpActionDefinition # None
    /\ cvt.sdk[1].SsmActionDefinition = None

\* C7: a Read whose finder call fails with an error other than
\* resource-not-found returns an error and changes neither the ID nor any
\* attribute.
C7_FinderErrorLeavesRecord ==
    [][ FinderStep("error") => (ret' = "err" /\ id' = id /\ id' # <<>> /\ attrs' = attrs) ]_vars

C7_Witness ==
    /\ op = "Read"
    /\ pc = "done"
    /\ LastFinder("error")
    /\ ret = "err"
    /\ id # <<>>
    /\ attrs # NoAttrs

\* C8: during Create the ID is set exactly when a CreateBudgetAction call has
\* succeeded, so it is set while the waiter runs; when the waiter fails,
\* Create has returned an error with the ID set and Read was not called.
C8_IdSetBeforeWaiter ==
    op = "Create" =>
        /\ (id # <<>>) <=> (\E i \in 1..Len(calls) :
                               calls[i].call = "CreateBudgetAction" /\ calls[i].res = "ok")
        /\ pc = "create_wait" =>
               \E x \in ActionIds :
                   id = BudgetActionCreateResourceID(input.AccountId[1], x, input.BudgetName[1])
        /\ (pc = "done" /\ calls # <<>> /\ calls[Len(calls)].call = "ActionStatus") =>
               (ret = "err" /\ id # <<>> /\ NoFinderCall)

C8_Witness ==
    /\ op = "Create"
    /\ pc = "done"
    /\ calls # <<>>
    /\ calls[Len(calls)].call = "ActionStatus"
    /\ ret = "err"
    /\ id # <<>>

\* C9: the calls of Update are UpdateBudgetAction first, then the waiter's
\* polls, then the finder of Read; the waiter polls only after the vendor
\* call succeeded, Read runs only right after a poll saw the action
\* available, a failed vendor call ends Update with an error, and the
\* attributes change only in a step that follows such a poll.
C9_UpdateOrder ==
    /\ [] ( op = "Update" =>
              /\ \A i \in 1..Len(calls) :
                    /\ (i = 1) <=> (calls[i].call = "UpdateBudgetAction")
                    /\ calls[i].call = "ActionStatus" =>
                           ( /\ calls[1].res = "ok"
                             /\ \A j \in 2..(i - 1) :
                                   /\ calls[j].call = "ActionStatus"
                                   /\ ActionAvailable(calls[j].res, calls[j].elapsed) = "poll" )
                    /\ calls[i].call = FinderCall =>
                           ( /\ i = Len(calls)
                             /\ calls[i - 1].call = "ActionStatus"
                             /\ calls[i - 1].res = "available" )
              /\ (calls # <<>> /\ calls[1].res # "ok") =>
                     (Len(calls) = 1 /\ pc = "done" /\ ret = "err") )
    /\ [][ (op = "Update" /\ pc # "done" /\ attrs' # attrs) =>
              ( /\ calls # <<>>
                /\ calls[Len(calls)].call = "ActionStatus"
                /\ calls[Len(calls)].res = "available" ) ]_vars

C9_Witness ==
    /\ op = "Update"
    /\ pc = "done"
    /\ ret = "ok"
    /\ LastFinder("ok")
    /\ Len(calls) >= 4
    /\ attrs.approval_model = config.approval_model

\* C10: when the Read that ends Create gets resource-not-found from the
\* finder, the ID stays set and Create returns an error.
C10_NewResourceNotFoundIsError ==
    (op = "Create" /\ pc = "done" /\ LastFinder("notfound")) =>
        /\ ret = "err"
        /\ id # <<>>
        /\ \E x \in ActionIds :
               id = BudgetActionCreateResourceID(input.AccountId[1], x, input.BudgetName[1])

C10_Witness ==
    /\ op = "Create"
    /\ pc = "done"
    /\ LastFinder("notfound")
    /\ ret = "err"
    /\ id # <<>>

\* C11: every invocation of Create and of Update eventually returns, also
\* when every CreateBudgetAction attempt is answered AccessDeniedException
\* and when no poll of the waiter sees the expected status.
C11_CreateAndUpdateReturn ==
    (op \in {"Create", "Update"}) ~> (pc = "done" /\ ret \in {"ok", "err"})

\* Create returned after AccessDeniedException on every attempt, up to the timeout
C11_Witness ==
    /\ op = "Create"
    /\ pc = "done"
    /\ ret = "err"
    /\ Len(calls) >= 2
    /\ \A i \in 1..Len(calls) :
          calls[i].call = "CreateBudgetAction" /\ calls[i].res = "AccessDeniedException"
    /\ calls[Len(calls)].elapsed

\* C12 as stated: for every valid action_threshold block, subscriber set and
\* definition block, flattening the struct expanded from it gives the block
\* back.
C12_FlattenInvertsExpand ==
    cvt.phase = "flattened" => cvt.flat = cvt.cfg

\* C12, amended: for every valid action_threshold block, every valid
\* subscriber set and every valid definition block that is not empty,
\* flattening the struct expanded from it gives the block back (the same
\* threshold type and value, the same address / subscription_type pairs, the
\* same branches with the same fields); an empty definition block (a nil list
\* element) expands to a nil Definition, which flattens to a list without
\* block.
C12_FlattenInvertsExpandUnlessEmpty ==
    cvt.phase = "flattened" =>
        IF cvt.kind = "definition" /\ cvt.cfg = <<NilBlock>>
        THEN cvt.sdk = None /\ cvt.flat = <<>>
        ELSE cvt.sdk # None /\ cvt.flat = cvt.cfg

C12_Witness ==
    /\ cvt.phase = "flattened"
    /\ cvt.kind = "definition"
    /\ cvt.cfg # <<NilBlock>>
    /\ cvt.cfg[1].iam_action_definition # <<>>
    /\ cvt.cfg[1].iam_action_definition[1].groups # {}
    /\ cvt.cfg[1].iam_action_definition[1].roles = {}
    /\ cvt.cfg[1].scp_action_definition # <<>>
    /\ cvt.flat = cvt.cfg

\* C13: after every successful Read the account ID in the arn attribute is
\* the account_id attribute of the record, and the arn's resource part is
\* budget/<budget_name>/action/<action_id> with the components parsed from
\* the resource ID.
C13_ArnMatchesRecord ==
    (pc = "done" /\ ret = "ok" /\ LastFinder("ok")) =>
        LET parsed == BudgetActionParseResourceID(id)
        IN  /\ attrs.arn.AccountID = attrs.account_id
            /\ attrs.arn.Resource =
                   <<"budget/">> \o parsed.budgetName \o <<"/action/">> \o parsed.actionID

====
